---- MODULE Spec2Model ----
(***************************************************************************)
(* microforms.forms: conversion of micromodels field declarations into     *)
(* wtforms field declarations.                                             *)
(*                                                                         *)
(* Python values are represented as follows.                               *)
(*   - An optional value (None or a value v) is the sequence <<>> or <<v>>.*)
(*   - A dict with string keys is a function whose DOMAIN is its key set.  *)
(*   - An ordered mapping (OrderedDict, a class's _clsfields) is a         *)
(*     sequence of [name, field] records in insertion order.               *)
(*   - A Python string that is parsed character by character (the input    *)
(*     of coerce_nullbool) is a sequence of one-character strings.         *)
(*   - A list object referenced from two places (a 'validators' list of    *)
(*     the caller's field_args that kwargs.update() copies by reference)   *)
(*     is modelled by writing every in-place append back into the owner.   *)
(***************************************************************************)
EXTENDS Integers, Sequences, FiniteSets, TLC

VARIABLES
    caller_args,  \* the mapping the caller passes as field_args: name -> dict
    calls,        \* how many calls have been handed caller_args
    last          \* the call whose result the caller holds: [op, in, out]

vars == <<caller_args, calls, last>>

---------------------------------------------------------------------------
(* Bounds *)

MaxFields == 2      \* declared fields of a generated model class
MaxCalls == 2       \* calls that are handed the caller's field_args
MaxStrLen == 2      \* characters of a generated coerce_nullbool input
MaxDepth == 1       \* nesting of FieldCollectionField in a converted field

---------------------------------------------------------------------------
(* Python helpers *)

None == <<>>
Some(v) == <<v>>

\* bool(x) for an optional collection: None and the empty collection are falsy.
TruthySet(m) == m # None /\ m[1] # {}
TruthyDict(m) == m # None /\ DOMAIN m[1] # {}

\* dict.update: keys of d override, keys of d not in kwargs are added.
update(kwargs, d) ==
    [k \in DOMAIN kwargs \cup DOMAIN d |-> IF k \in DOMAIN d THEN d[k] ELSE kwargs[k]]

\* list.append on the value stored under key
append(kwargs, key, v) == [kwargs EXCEPT ![key] = Append(@, v)]

Range(s) == {s[i] : i \in 1..Len(s)}

\* dict.get(key): None when the key is absent
get(d, key) == IF key \in DOMAIN d THEN Some(d[key]) ELSE None

Names(od) == [i \in 1..Len(od) |-> od[i].name]

---------------------------------------------------------------------------
(* Source side: micromodels fields and model classes *)

\* A micromodels field object; _instance is the inner field of a
\* FieldCollectionField, _wrapped_class the model of a Model(Collection)Field.
SourceField(ftype, required, instance, wrapped_class) ==
    [type |-> ftype, required |-> required,
     verbose_name |-> "", help_text |-> "", default |-> "default",
     _instance |-> instance, _wrapped_class |-> wrapped_class]

Scalar(ftype, required) == SourceField(ftype, required, None, None)

\* A model class: its __name__ and its _clsfields in declaration order.
ModelClass(name, clsfields) == [__name__ |-> name, _clsfields |-> clsfields]

Decl(name, field) == [name |-> name, field |-> field]

\* tests.py TestModel
TestModel ==
    ModelClass("TestModel", <<
        Decl("title", Scalar("CharField", TRUE)),
        Decl("body", Scalar("CharField", TRUE)),
        Decl("images", SourceField("FieldCollectionField", TRUE,
                                   Some(Scalar("CharField", TRUE)), None)),
        Decl("field4", Scalar("CharField", TRUE)),
        Decl("field5", Scalar("CharField", TRUE)),
        Decl("afield", Scalar("CharField", TRUE)) >>)

---------------------------------------------------------------------------
(* The converter registry *)

DEFAULT_SIMPLE_CONVERSIONS ==
    [ft \in {"IntegerField", "DecimalField", "FileField", "DateTimeField",
             "DateField", "BooleanField", "TextField", "TextAreaField",
             "URIFileField", "URIField"} |->
        CASE ft = "IntegerField" -> {"AutoField", "IntegerField", "SmallIntegerField",
                                     "PositiveIntegerField", "PositiveSmallIntegerField"}
          [] ft = "DecimalField" -> {"DecimalField", "FloatField"}
          [] ft = "FileField" -> {"FileField", "FilePathField", "ImageField"}
          [] ft = "DateTimeField" -> {"DateTimeField"}
          [] ft = "DateField" -> {"DateField"}
          [] ft = "BooleanField" -> {"BooleanField"}
          [] ft = "TextField" -> {"CharField", "PhoneNumberField", "SlugField"}
          [] ft = "TextAreaField" -> {"TextField", "XMLField", "JSONField"}
          [] ft = "URIFileField" -> {"URIFileField"}
          [] ft = "URIField" -> {"URIField", "URLField"}]

\* The conv_<TypeName> methods MicroModelConverter defines (getattr finds these).
ConvMethods ==
    {"TimeField", "EmailField", "IPAddressField", "URLField", "NullBooleanField",
     "ModelField", "ModelCollectionField", "FieldCollectionField"}

\* An unbound wtforms field: the field class, positional and keyword arguments.
UnboundField(field_class, args, kwargs) ==
    [field_class |-> field_class, args |-> args, kwargs |-> kwargs]

\* MicroModelConverter.__init__: self.converters maps a source type name to
\* the destination class its simple converter instantiates; extra_converters
\* (optional, here simple converters too) override the table.
MicroModelConverter(extra_converters, simple_conversions) ==
    LET simple == IF simple_conversions = None THEN DEFAULT_SIMPLE_CONVERSIONS
                  ELSE simple_conversions[1]
        table == UNION {simple[ft] : ft \in DOMAIN simple}
        converters == [n \in table |-> CHOOSE ft \in DOMAIN simple : n \in simple[ft]]
    IN  [converters |-> IF TruthyDict(extra_converters)
                        THEN update(converters, extra_converters[1])
                        ELSE converters]

---------------------------------------------------------------------------
(* Conversion.  Every converter returns [ret, kwargs]: the value it returns *)
(* and the kwargs dict as its in-place appends left it.                    *)

RECURSIVE convert(_, _, _, _)
RECURSIVE model_fields(_, _, _, _, _)
RECURSIVE model_fields_loop(_, _, _, _, _, _)

\* make_simple_converter(field_type) applied to (model, field, kwargs)
make_simple_converter(field_type, model, field, kwargs) ==
    [ret |-> Some(UnboundField(field_type, <<>>, kwargs)), kwargs |-> kwargs]

conv_TimeField(self, model, field, kwargs) ==
    LET kw == append(kwargs, "filters", "time_only")
    IN  [ret |-> Some(UnboundField("DateTimeField", <<>>,
                                   update(kw, [format |-> "%H:%M:%S"]))),
         kwargs |-> kw]

conv_EmailField(self, model, field, kwargs) ==
    LET kw == append(kwargs, "validators", "email")
    IN  [ret |-> Some(UnboundField("TextField", <<>>, kw)), kwargs |-> kw]

conv_IPAddressField(self, model, field, kwargs) ==
    LET kw == append(kwargs, "validators", "ip_address")
    IN  [ret |-> Some(UnboundField("TextField", <<>>, kw)), kwargs |-> kw]

conv_URLField(self, model, field, kwargs) ==
    LET kw == append(kwargs, "validators", "url")
    IN  [ret |-> Some(UnboundField("TextField", <<>>, kw)), kwargs |-> kw]

conv_NullBooleanField(self, model, field, kwargs) ==
    LET choices == << <<"None", "Unknown">>, <<"True", "Yes">>, <<"False", "No">> >>
    IN  [ret |-> Some(UnboundField("SelectField", <<>>,
                        update(kwargs, [choices |-> choices,
                                        coerce |-> "coerce_nullbool"]))),
         kwargs |-> kwargs]

\* type(model.__name__ + 'Form', (base_class,), field_dict)
FormClass(model, base_class, field_dict) ==
    [__name__ |-> model.__name__ \o "Form", bases |-> <<base_class>>,
     attrs |-> field_dict]

\* model_form: [ret |-> the class, field_args |-> the caller's mapping afterwards]
model_form(model, base_class, only, exclude, field_args, converter) ==
    LET r == model_fields(model, only, exclude, field_args, converter)
    IN  [ret |-> FormClass(model, base_class, r.ret), field_args |-> r.field_args]

conv_ModelField(self, model, field, kwargs) ==
    LET wrapped == field._wrapped_class[1]
        form == model_form(wrapped, "Form", None, None, None, None).ret
    IN  [ret |-> Some(UnboundField("FormField", <<form>>, [default |-> wrapped])),
         kwargs |-> kwargs]

conv_ModelCollectionField(self, model, field, kwargs) ==
    LET wrapped == field._wrapped_class[1]
        form == model_form(wrapped, "Form", None, None, None, None).ret
        inner == UnboundField("FormField", <<form>>, [default |-> wrapped])
    IN  [ret |-> Some(UnboundField("FieldList", <<Some(inner)>>, <<>>)),
         kwargs |-> kwargs]

\* self.convert(model, field._instance, {}) may return None; FieldList takes
\* whatever it is given as its inner field.
conv_FieldCollectionField(self, model, field, kwargs) ==
    LET form_field == convert(self, model, field._instance[1], Some(<<>>)).ret
    IN  [ret |-> Some(UnboundField("FieldList", <<form_field>>, <<>>)),
         kwargs |-> kwargs]

\* getattr(self, 'conv_%s' % ftype, None) applied to (model, field, kwargs)
conv_method(self, ftype, model, field, kwargs) ==
    CASE ftype = "TimeField" -> conv_TimeField(self, model, field, kwargs)
      [] ftype = "EmailField" -> conv_EmailField(self, model, field, kwargs)
      [] ftype = "IPAddressField" -> conv_IPAddressField(self, model, field, kwargs)
      [] ftype = "URLField" -> conv_URLField(self, model, field, kwargs)
      [] ftype = "NullBooleanField" -> conv_NullBooleanField(self, model, field, kwargs)
      [] ftype = "ModelField" -> conv_ModelField(self, model, field, kwargs)
      [] ftype = "ModelCollectionField" ->
             conv_ModelCollectionField(self, model, field, kwargs)
      [] ftype = "FieldCollectionField" ->
             conv_FieldCollectionField(self, model, field, kwargs)

\* The keys of a field_args entry whose values are list objects: kwargs.update
\* copies the reference, so kwargs[key] and field_args[key] are one list.
SharedKeys == {"validators", "filters"}

\* The (optional) field_args dict after a call that left kwargs as given.
write_back(field_args, kwargs) ==
    IF TruthyDict(field_args)
    THEN Some([k \in DOMAIN field_args[1] |->
                  IF k \in SharedKeys THEN kwargs[k] ELSE field_args[1][k]])
    ELSE field_args

\* add_optional inserting Optional at the front of the list
add_optional_prepend(kwargs) ==
    [kwargs EXCEPT !["validators"] = <<"Optional">> \o @]

\* The append of line 37: Optional goes to the end of kwargs['validators'].
add_optional(kwargs) == append(kwargs, "validators", "Optional")

\* MicroModelConverterBase.convert:
\* [ret |-> optional destination field, field_args |-> field_args afterwards]
convert(self, model, field, field_args) ==
    LET kwargs0 == [label |-> field.verbose_name,
                    description |-> field.help_text,
                    validators |-> <<>>,
                    filters |-> <<>>,
                    default |-> field.default]
        kwargs1 == IF TruthyDict(field_args) THEN update(kwargs0, field_args[1])
                   ELSE kwargs0
        kwargs == IF ~field.required THEN add_optional(kwargs1) ELSE kwargs1
        ftype == field.type
    IN  IF ftype \in DOMAIN self.converters
        THEN LET r == make_simple_converter(self.converters[ftype], model, field, kwargs)
             IN  [ret |-> r.ret, field_args |-> write_back(field_args, r.kwargs)]
        ELSE IF ftype \in ConvMethods
        THEN LET r == conv_method(self, ftype, model, field, kwargs)
             IN  [ret |-> r.ret, field_args |-> write_back(field_args, r.kwargs)]
        ELSE [ret |-> None, field_args |-> write_back(field_args, kwargs)]

\* retained with 'exclude' tested before 'only'
retained_exclude_first(x, only, exclude) ==
    IF TruthySet(exclude) THEN x.name \notin exclude[1]
    ELSE IF TruthySet(only) THEN x.name \in only[1]
    ELSE TRUE

\* retained with the exclude test inverted
retained_inverted(x, only, exclude) ==
    IF TruthySet(only) THEN x.name \in only[1]
    ELSE IF TruthySet(exclude) THEN x.name \in exclude[1]
    ELSE TRUE

\* The filter of lines 139-143 on one (name, field) item.
retained(x, only, exclude) ==
    IF TruthySet(only) THEN x.name \in only[1]
    ELSE IF TruthySet(exclude) THEN x.name \notin exclude[1]
    ELSE TRUE

RECURSIVE model_fields_loop_stops(_, _, _, _, _, _)
\* model_fields_loop leaving the loop at the first field without a converter
model_fields_loop_stops(converter, model, items, i, field_dict, fa) ==
    IF i > Len(items) THEN [ret |-> field_dict, field_args |-> fa]
    ELSE LET name == items[i].name
             r == convert(converter, model, items[i].field, get(fa, name))
             fa2 == IF name \in DOMAIN fa THEN [fa EXCEPT ![name] = r.field_args[1]]
                    ELSE fa
         IN  IF r.ret = None THEN [ret |-> field_dict, field_args |-> fa2]
             ELSE model_fields_loop_stops(converter, model, items, i + 1,
                                          Append(field_dict, Decl(name, r.ret[1])), fa2)

\* The loop of lines 145-149 from item i on: field_dict so far, fa the
\* field_args mapping as the conversions so far left it.
model_fields_loop(converter, model, items, i, field_dict, fa) ==
    IF i > Len(items) THEN [ret |-> field_dict, field_args |-> fa]
    ELSE LET name == items[i].name
             r == convert(converter, model, items[i].field, get(fa, name))
             fa2 == IF name \in DOMAIN fa THEN [fa EXCEPT ![name] = r.field_args[1]]
                    ELSE fa
             fd2 == IF r.ret # None THEN Append(field_dict, Decl(name, r.ret[1]))
                    ELSE field_dict
         IN  model_fields_loop(converter, model, items, i + 1, fd2, fa2)

\* model_fields: [ret |-> the OrderedDict, field_args |-> the caller's
\* (optional) mapping afterwards]
model_fields(model, only, exclude, field_args, converter) ==
    LET conv == IF converter # None THEN converter[1] ELSE MicroModelConverter(None, None)
        fa == IF TruthyDict(field_args) THEN field_args[1] ELSE <<>>
        items == SelectSeq(model._clsfields, LAMBDA x : retained(x, only, exclude))
        r == model_fields_loop(conv, model, items, 1, <<>>, fa)
    IN  [ret |-> r.ret,
         field_args |-> IF TruthyDict(field_args) THEN Some(r.field_args)
                        ELSE field_args]

---------------------------------------------------------------------------
(* conv_NullBooleanField's coerce function *)

Digits == <<"0", "1", "2", "3", "4", "5", "6", "7", "8", "9">>
IsDigit(c) == \E i \in 1..10 : Digits[i] = c
DigitValue(c) == (CHOOSE i \in 1..10 : Digits[i] = c) - 1

RECURSIVE strip(_)
\* str.strip(): leading and trailing whitespace removed
strip(s) ==
    IF s = <<>> THEN s
    ELSE IF Head(s) = " " THEN strip(Tail(s))
    ELSE IF s[Len(s)] = " " THEN strip(SubSeq(s, 1, Len(s) - 1))
    ELSE s

RECURSIVE digits_value(_, _)
digits_value(s, acc) ==
    IF s = <<>> THEN acc ELSE digits_value(Tail(s), 10 * acc + DigitValue(Head(s)))

\* int(str): optional surrounding whitespace, an optional sign, one or more
\* decimal digits; anything else raises ValueError (None here).
py_int(s) ==
    LET t == strip(s)
        signed == t # <<>> /\ Head(t) \in {"-", "+"}
        body == IF signed THEN Tail(t) ELSE t
    IN  IF body # <<>> /\ \A i \in 1..Len(body) : IsDigit(body[i])
        THEN Some(IF signed /\ Head(t) = "-" THEN 0 - digits_value(body, 0)
                  ELSE digits_value(body, 0))
        ELSE None

\* The keys of d that are strings, as character sequences.
StrNone == <<"N", "o", "n", "e">>
StrTrue == <<"T", "r", "u", "e">>
StrFalse == <<"F", "a", "l", "s", "e">>

\* coerce_nullbool falling back on bool(value) instead of bool(int(value))
coerce_nullbool_truthy(value) ==
    IF value = None \/ value[1] = StrNone THEN "None"
    ELSE IF value[1] = StrTrue THEN "True"
    ELSE IF value[1] = StrFalse THEN "False"
    ELSE IF value[1] # <<>> THEN "True" ELSE "False"

\* coerce_nullbool(value), value an optional string; the outcome is the name
\* of the returned value ("None", "True", "False") or of the exception raised.
coerce_nullbool(value) ==
    IF value = None \/ value[1] = StrNone THEN "None"
    ELSE IF value[1] = StrTrue THEN "True"
    ELSE IF value[1] = StrFalse THEN "False"
    ELSE LET n == py_int(value[1])
         IN  IF n = None THEN "ValueError"
             ELSE IF n[1] # 0 THEN "True" ELSE "False"

---------------------------------------------------------------------------
(* The declarative variant *)

\* MicromodelFormOptions reading exclude from the 'fields' attribute
MicromodelFormOptions_fields_twice(options) ==
    LET attr(k) == IF options = None THEN None ELSE get(options[1], k)
    IN  [model |-> attr("model"), fields |-> attr("fields"),
         exclude |-> attr("fields"), widgets |-> attr("widgets"),
         converter |-> attr("converter"), field_args |-> attr("field_args")]

\* getattr(options, name, None) for each option
MicromodelFormOptions(options) ==
    LET attr(k) == IF options = None THEN None ELSE get(options[1], k)
    IN  [model |-> attr("model"), fields |-> attr("fields"),
         exclude |-> attr("exclude"), widgets |-> attr("widgets"),
         converter |-> attr("converter"), field_args |-> attr("field_args")]

RECURSIVE setattr_all(_, _, _)
\* for key, attr in fields.items(): setattr(cls, key, attr)
setattr_all(attrs, fields, i) ==
    IF i > Len(fields) THEN attrs
    ELSE LET key == fields[i].name
             at == {j \in 1..Len(attrs) : attrs[j].name = key}
             next == IF at = {} THEN Append(attrs, fields[i])
                     ELSE [attrs EXCEPT ![CHOOSE j \in at : TRUE] = fields[i]]
         IN  setattr_all(next, fields, i + 1)

\* MicromodelFormMeta.__init__ on a class with the given name, bases and
\* class body attrs, whose Meta is looked up on the class:
\* [ret |-> the class, field_args |-> Meta.field_args afterwards]
MicromodelFormMeta(name, bases, attrs, Meta) ==
    LET opts == MicromodelFormOptions(Meta)
        r == IF opts.model # None
             THEN model_fields(opts.model[1], opts.fields, opts.exclude,
                               opts.field_args, opts.converter)
             ELSE [ret |-> <<>>, field_args |-> opts.field_args]
    IN  [ret |-> [__name__ |-> name, bases |-> bases, _meta |-> opts,
                  attrs |-> setattr_all(attrs, r.ret, 1)],
         field_args |-> r.field_args]

---------------------------------------------------------------------------
(* Inputs *)

FieldNames == {"title", "body", "afield"}

\* Every source type name the default converter knows, and one it does not
\* (micromodels.BaseField: no table entry, no conv_BaseField).
TableTypes == UNION {DEFAULT_SIMPLE_CONVERSIONS[ft] : ft \in DOMAIN DEFAULT_SIMPLE_CONVERSIONS}
ScalarTypes ==
    TableTypes \cup {"TimeField", "EmailField", "IPAddressField", "NullBooleanField",
                     "BaseField"}

InnerModel == ModelClass("Inner", <<Decl("afield", Scalar("BaseField", TRUE)),
                                    Decl("title", Scalar("EmailField", FALSE))>>)

RECURSIVE SourceFields(_)
\* Source fields with FieldCollectionField nested at most depth deep.
SourceFields(depth) ==
    IF depth = 0
    THEN {Scalar(t, r) : t \in ScalarTypes, r \in BOOLEAN}
         \cup {SourceField(t, r, None, Some(m)) :
                 t \in {"ModelField", "ModelCollectionField"}, r \in BOOLEAN,
                 m \in {TestModel, InnerModel}}
    ELSE SourceFields(depth - 1)
         \cup {SourceField("FieldCollectionField", r, Some(i), None) :
                 r \in BOOLEAN, i \in SourceFields(depth - 1)}

AllSourceFields == SourceFields(MaxDepth)

\* The fields of generated model classes: one the default converter converts
\* (and whose conversion appends to its lists), one it has no converter for.
DeclaredFields == {Scalar("EmailField", FALSE), Scalar("BaseField", TRUE)}

Declarations(n) ==
    {s \in [1..n -> {Decl(nm, fl) : nm \in FieldNames, fl \in DeclaredFields}] :
        \A i, j \in 1..n : i # j => s[i].name # s[j].name}

Models ==
    {TestModel} \cup {ModelClass("M", s) : s \in UNION {Declarations(n) : n \in 0..MaxFields}}

\* only / exclude: absent, or any set of these names
FilterNames == {"title", "afield"}
Filters == {None} \cup {Some(S) : S \in SUBSET FilterNames}

\* converter: absent (the default MicroModelConverter()), or one built with
\* extra_converters
ExtraConverters == [BaseField |-> "TextAreaField", EmailField |-> "TextField"]
ConverterObjects ==
    {MicroModelConverter(None, None), MicroModelConverter(Some(ExtraConverters), None)}
Converters == {None, Some(MicroModelConverter(Some(ExtraConverters), None))}

\* The field_args mappings a caller starts with.
InitialFieldArgs ==
    { <<>>,
      [title |-> [validators |-> <<"Length">>], body |-> <<>>],
      [afield |-> [filters |-> <<"strip">>, label |-> "A field"]] }

Chars == {"0", "1", "7", "-", " ", "a"}
Strings == UNION {[1..n -> Chars] : n \in 0..MaxStrLen}
CoerceInputs == {None} \cup {Some(s) : s \in Strings \cup {StrNone, StrTrue, StrFalse}}

---------------------------------------------------------------------------
(* State machine *)

NoCall == [op |-> "none"]

\* A call is made when the caller holds no result; one that is handed
\* caller_args counts towards MaxCalls.
Idle == last = NoCall
MayPassArgs == Idle /\ calls < MaxCalls

Init ==
    /\ caller_args \in InitialFieldArgs
    /\ calls = 0
    /\ last = NoCall

\* model_fields(model, only, exclude, caller_args, converter)
ModelFields ==
    /\ MayPassArgs
    /\ \E model \in Models, only \in Filters, exclude \in Filters, converter \in Converters :
         LET r == model_fields(model, only, exclude, Some(caller_args), converter)
         IN  /\ caller_args' = r.field_args[1]
             /\ last' = [op |-> "model_fields",
                         in |-> [model |-> model, only |-> only, exclude |-> exclude,
                                 field_args |-> caller_args, converter |-> converter],
                         out |-> r.ret]
    /\ calls' = calls + 1

\* model_form(model, Form, only, exclude, caller_args, converter)
ModelForm ==
    /\ MayPassArgs
    /\ \E model \in Models, only \in Filters, exclude \in Filters, converter \in Converters :
         LET r == model_form(model, "Form", only, exclude, Some(caller_args), converter)
         IN  /\ caller_args' = r.field_args[1]
             /\ last' = [op |-> "model_form",
                         in |-> [model |-> model, only |-> only, exclude |-> exclude,
                                 field_args |-> caller_args, converter |-> converter],
                         out |-> r.ret]
    /\ calls' = calls + 1

\* The Meta class of a subclass: each option is set or left out.
MetaClass(model, fields, exclude, converter, args) ==
    LET given == [model |-> model, fields |-> fields, exclude |-> exclude,
                  converter |-> converter, field_args |-> args]
    IN  [k \in {x \in DOMAIN given : given[x] # None} |-> given[k][1]]

\* class Sub(MicromodelForm): class Meta: ...
DefineSubclass ==
    /\ MayPassArgs
    /\ \E model \in {None} \cup {Some(x) : x \in Models}, fields \in Filters,
          exclude \in Filters, converter \in Converters :
         LET Meta == MetaClass(model, fields, exclude, converter, Some(caller_args))
             r == MicromodelFormMeta("Sub", <<"MicromodelForm">>, <<>>, Some(Meta))
         IN  /\ caller_args' = r.field_args[1]
             /\ last' = [op |-> "subclass",
                         in |-> [Meta |-> Meta, field_args |-> caller_args],
                         out |-> r.ret]
    /\ calls' = calls + 1

\* converter.convert(model, field, field_args) with field_args None
ConvertNoArgs ==
    /\ Idle
    /\ \E self \in ConverterObjects, field \in AllSourceFields :
         last' = [op |-> "convert",
                  in |-> [self |-> self, field |-> field, field_args |-> None],
                  out |-> convert(self, TestModel, field, None).ret]
    /\ UNCHANGED <<caller_args, calls>>

\* converter.convert(model, field, caller_args[name])
ConvertWithArgs ==
    /\ MayPassArgs
    /\ \E self \in ConverterObjects, field \in AllSourceFields, name \in DOMAIN caller_args :
         LET r == convert(self, TestModel, field, Some(caller_args[name]))
         IN  /\ caller_args' = [caller_args EXCEPT ![name] = r.field_args[1]]
             /\ last' = [op |-> "convert",
                         in |-> [self |-> self, field |-> field,
                                 field_args |-> Some(caller_args[name])],
                         out |-> r.ret]
    /\ calls' = calls + 1

\* The coerce function of a converted NullBooleanField applied to a value
Coerce ==
    /\ Idle
    /\ \E value \in CoerceInputs :
         last' = [op |-> "coerce", in |-> [value |-> value],
                  out |-> coerce_nullbool(value)]
    /\ UNCHANGED <<caller_args, calls>>

\* The caller drops the result it holds; its field_args mapping stays.
Discard ==
    /\ ~Idle
    /\ last' = NoCall
    /\ UNCHANGED <<caller_args, calls>>

Next ==
    \/ ModelFields
    \/ ModelForm
    \/ DefineSubclass
    \/ ConvertNoArgs
    \/ ConvertWithArgs
    \/ Coerce
    \/ Discard

Spec == Init /\ [][Next]_vars

---------------------------------------------------------------------------
(* Vocabulary of the properties *)

\* The converter a call uses: the one passed, or the default one.
UsedConverter(converter) ==
    IF converter = None THEN MicroModelConverter(None, None) ELSE converter[1]

\* A source type name has a converter: a table entry or a conv_ method.
HasConverter(self, ftype) == ftype \in DOMAIN self.converters \/ ftype \in ConvMethods

DefaultConverter == MicroModelConverter(None, None)

IsBuilderCall == last.op \in {"model_fields", "model_form"}

\* The name -> field pairs a builder call produced, in order.
BuiltFields == IF last.op = "model_fields" THEN last.out ELSE last.out.attrs

\* Declaration order restricted to the fields that have a converter and
\* whose name satisfies keep.
Restricted(in, keep(_)) ==
    Names(SelectSeq(in.model._clsfields,
                    LAMBDA x : HasConverter(UsedConverter(in.converter), x.field.type)
                               /\ keep(x.name)))

TestModelOrder == <<"title", "body", "images", "field4", "field5", "afield">>

---------------------------------------------------------------------------
(* C1 *)

\* C1: with no 'only' given, for every model and every exclude set E (absent
\* or empty: no filter) the names model_fields returns / model_form installs
\* are the declaration order restricted to the fields that have a converter
\* and are not in E; TestModel unfiltered yields title, body, images, field4,
\* field5, afield.
C1_ExcludeKeepsDeclarationOrder ==
    (IsBuilderCall /\ last.in.only = None) =>
        /\ Names(BuiltFields) =
               Restricted(last.in, LAMBDA n : last.in.exclude = None
                                              \/ n \notin last.in.exclude[1])
        /\ (last.in.model = TestModel /\ ~TruthySet(last.in.exclude))
               => Names(BuiltFields) = TestModelOrder

\* model_form(TestModel, exclude={'title'}) installed the other five in order.
C1_Witness ==
    /\ last.op = "model_form"
    /\ last.in.model = TestModel
    /\ last.in.only = None
    /\ last.in.exclude = Some({"title"})
    /\ Names(last.out.attrs) = <<"body", "images", "field4", "field5", "afield">>

---------------------------------------------------------------------------
(* C2 *)

---------------------------------------------------------------------------
(* C3 *)

\* C3: for every source type that has a converter, a field marked not
\* required is converted to a destination field whose validator list holds
\* Optional.
C3_NotRequiredCarriesOptional ==
    (last.op = "convert" /\ ~last.in.field.required
        /\ HasConverter(last.in.self, last.in.field.type)) =>
        /\ last.out # None
        /\ "validators" \in DOMAIN last.out[1].kwargs
        /\ "Optional" \in Range(last.out[1].kwargs.validators)

---------------------------------------------------------------------------
(* C4 *)

FormatValidator(ftype) ==
    CASE ftype = "EmailField" -> "email"
      [] ftype = "IPAddressField" -> "ip_address"
      [] ftype = "URLField" -> "url"

\* C4: the default converter turns an EmailField, IPAddressField or URLField
\* into a plain text field whose validator list ends with the email,
\* ip_address or url validator.
C4_FormatValidatorAppended ==
    (last.op = "convert" /\ last.in.self = DefaultConverter
        /\ last.in.field.type \in {"EmailField", "IPAddressField", "URLField"}) =>
        /\ last.out # None
        /\ last.out[1].field_class = "TextField"
        /\ LET v == last.out[1].kwargs.validators
           IN  v # <<>> /\ v[Len(v)] = FormatValidator(last.in.field.type)

---------------------------------------------------------------------------
(* C5 *)

\* s is an integer literal: spaces, an optional sign, digits, spaces.
IntegerLiteral(s) ==
    \E i, j \in 1..Len(s) :
        /\ i <= j
        /\ \A k \in 1..Len(s) : (k < i \/ k > j) => s[k] = " "
        /\ LET d == IF s[i] \in {"-", "+"} THEN i + 1 ELSE i
           IN  d <= j /\ \A k \in d..j : IsDigit(s[k])

\* the integer an integer literal denotes is not zero
NonZeroLiteral(s) == \E k \in 1..Len(s) : IsDigit(s[k]) /\ s[k] # "0"

\* C5: coerce_nullbool maps "None" and None to None, "True" to True, "False"
\* to False, and any other string to the boolean of its integer value.
C5_CoerceNullBool ==
    last.op = "coerce" =>
        LET value == last.in.value
        IN  /\ (value = None \/ value = Some(StrNone)) => last.out = "None"
            /\ value = Some(StrTrue) => last.out = "True"
            /\ value = Some(StrFalse) => last.out = "False"
            /\ (value # None /\ value[1] \notin {StrNone, StrTrue, StrFalse}
                  /\ IntegerLiteral(value[1])) =>
                   last.out = IF NonZeroLiteral(value[1]) THEN "True" ELSE "False"

\* a string that is none of the four keys was coerced through its integer value
C5_Witness ==
    /\ last.op = "coerce"
    /\ last.in.value = Some(<<" ", "0">>)
    /\ last.out = "False"

---------------------------------------------------------------------------
(* C6 *)

\* C6: a declared field whose type has neither a table entry nor a conv_
\* method is dropped silently: convert returns None for it, the result of
\* model_fields has no entry for it (no placeholder either), and the other
\* retained fields are all there, converted, in declaration order.
C6_UnconvertibleDropped ==
    /\ (last.op = "convert" /\ ~HasConverter(last.in.self, last.in.field.type))
           => last.out = None
    /\ last.op = "model_fields" =>
           LET conv == UsedConverter(last.in.converter)
               kept == SelectSeq(last.in.model._clsfields,
                                 LAMBDA x : retained(x, last.in.only, last.in.exclude))
           IN  /\ \A i \in 1..Len(last.out) :
                      "field_class" \in DOMAIN last.out[i].field
               /\ \A i \in 1..Len(kept) :
                      ~HasConverter(conv, kept[i].field.type)
                          => kept[i].name \notin Range(Names(last.out))
               /\ Names(last.out) =
                      Names(SelectSeq(kept,
                                      LAMBDA x : HasConverter(conv, x.field.type)))

\* a model whose first field has no converter: the second one is still built
C6_Witness ==
    /\ last.op = "model_fields"
    /\ last.in.converter = None
    /\ last.in.only = None /\ last.in.exclude = None
    /\ Names(last.in.model._clsfields) = <<"title", "afield">>
    /\ last.in.model._clsfields[1].field.type = "BaseField"
    /\ Names(last.out) = <<"afield">>

---------------------------------------------------------------------------
(* C7 *)

\* C7: defining a subclass whose Meta names a model installs, at class
\* definition, exactly the name -> field pairs that model_fields(model,
\* only=Meta.fields, exclude=Meta.exclude, field_args=Meta.field_args,
\* converter=Meta.converter) returns, in the same order.
C7_SubclassInstallsModelFields ==
    (last.op = "subclass" /\ "model" \in DOMAIN last.in.Meta) =>
        LET Meta == last.in.Meta
        IN  last.out.attrs =
                model_fields(Meta.model, get(Meta, "fields"), get(Meta, "exclude"),
                             Some(last.in.field_args), get(Meta, "converter")).ret

\* a subclass with Meta.model, Meta.exclude and the caller's field_args
C7_Witness ==
    /\ last.op = "subclass"
    /\ "model" \in DOMAIN last.in.Meta
    /\ last.in.Meta.model = TestModel
    /\ "fields" \notin DOMAIN last.in.Meta
    /\ get(last.in.Meta, "exclude") = Some({"afield"})
    /\ "title" \in DOMAIN last.in.field_args
    /\ Names(last.out.attrs) = <<"title", "body", "images", "field4", "field5">>

---------------------------------------------------------------------------
(* C8 *)

\* C8: no call changes the field_args mapping the caller passes, nor any
\* list it holds.
C8_FieldArgsUnchanged == [][caller_args' = caller_args]_vars

---------------------------------------------------------------------------
(* C9 *)

\* the validators the per-field overrides supply to the last convert call
OverrideValidators ==
    IF TruthyDict(last.in.field_args) /\ "validators" \in DOMAIN last.in.field_args[1]
    THEN last.in.field_args[1].validators
    ELSE <<>>

FormatValidators == {"email", "ip_address", "url"}

\* C9 as stated: for a field that is not required, Optional is the first
\* element of the validator list handed to the destination field.
C9_OptionalFirst ==
    (last.op = "convert" /\ ~last.in.field.required /\ last.out # None
        /\ "validators" \in DOMAIN last.out[1].kwargs) =>
        LET v == last.out[1].kwargs.validators
        IN  v # <<>> /\ v[1] = "Optional"

\* C9 amended: Optional is appended once the overrides are merged: the list
\* handed to the destination field is the validators the overrides supply,
\* then Optional, then at most the format validator of a special-case
\* converter.
C9_OptionalAfterOverrides ==
    (last.op = "convert" /\ ~last.in.field.required /\ last.out # None
        /\ "validators" \in DOMAIN last.out[1].kwargs) =>
        LET v == last.out[1].kwargs.validators
            n == Len(OverrideValidators)
        IN  /\ Len(v) > n
            /\ SubSeq(v, 1, n) = OverrideValidators
            /\ v[n + 1] = "Optional"
            /\ \A k \in (n + 2)..Len(v) : v[k] \in FormatValidators

\* an override validator, then Optional, then the format validator
C9_Witness ==
    /\ last.op = "convert"
    /\ last.in.field.type = "EmailField" /\ ~last.in.field.required
    /\ last.in.self = DefaultConverter
    /\ last.out # None
    /\ last.out[1].kwargs.validators = <<"Length", "Optional", "email">>

---------------------------------------------------------------------------
(* C10 *)

\* C10: converting a FieldCollectionField returns no result or a list field
\* around a constructed inner field, never a list around None.
C10_ListEmbedsRealField ==
    (last.op = "convert" /\ last.in.field.type = "FieldCollectionField") =>
        \/ last.out = None
        \/ /\ last.out[1].field_class = "FieldList"
           /\ last.out[1].args[1] # None

====
